---- MODULE Spec2Model ----
(***************************************************************************)
(* Model of the image triage scripts:                                      *)
(*   pdf2image_looper.py            (batch variant, a directory of images) *)
(*   pdf2image2browser2download.py  (single-image variant)                 *)
(* Strings are sequences of one-character strings, so that lower(),        *)
(* strip() and quote_plus() are computed and not assumed.                  *)
(* Spec is a run of either script; ExtractSpec is one call of              *)
(* extract_info_from_text on one reply of the model.                       *)
(***************************************************************************)
EXTENDS Integers, Sequences, FiniteSets, TLC

VARIABLES
    variant,        \* which script runs: "batch" or "single"
    n,              \* total_images: number of listed image files
    i,              \* index of the image in process (enumerate index + 1), 0 before the loop
    pc,             \* position of the one thread of control
    loc,            \* loc[k]: the places on disk that hold the file of image k
    dirExists,      \* dirExists[d]: the disposal directory d exists
    title,          \* local of process_image / __main__
    doi,            \* local of process_image / __main__
    line,           \* what the last call of input() gave: a line, or EOF
    answer,         \* local of handle_post_analysis
    console,        \* console[k]: kinds of messages printed during the cycle of image k
    failed,         \* failed[k]: operations that raised during the cycle of image k
    opens,          \* opens[k]: calls of webbrowser.open_new_tab, in order
    moves,          \* moves[k]: calls of shutil.move, in order
    prompts,        \* number of calls of input() in the running handle_post_analysis
    analyzed,       \* analyzed[k]: number of calls of describe_image
    all_files,      \* __main__: the names os.listdir returns, in its order
    image_files,    \* __main__: the names kept by the extension filter, in order
    handed,         \* the calls of process_image so far: path, and the progress line before it
    content         \* local of extract_info_from_text: the text of the model's reply

vars == <<variant, n, i, pc, loc, dirExists, title, doi, line, answer,
          console, failed, opens, moves, prompts, analyzed,
          all_files, image_files, handed, content>>

----------------------------------------------------------------------------
\* Bounds of the model
MaxImages == 2
MaxPrompts == 2
MaxFrags == 3

----------------------------------------------------------------------------
\* Strings

TITLE_NOT_FOUND == <<"T","i","t","l","e"," ","n","o","t"," ","f","o","u","n","d">>
DOI_NOT_FOUND == <<"D","O","I"," ","n","o","t"," ","f","o","u","n","d">>
DOI_URL == <<"h","t","t","p","s",":","/","/","d","o","i",".","o","r","g","/",
             "1","0",".","1","0","0","0","/","x">>
GOOGLE_PREFIX == <<"h","t","t","p","s",":","/","/","w","w","w",".","g","o","o","g","l","e",
                   ".","c","o","m","/","s","e","a","r","c","h","?","q","=">>
A_TITLE == <<"A"," ","&","b">>

deletion_dir == "for_deletion"
inspection_dir == "manual_inspection"
Dirs == {deletion_dir, inspection_dir}
ORIG == "original_path"

UpperCase == <<"A","B","C","D","E","F","G","H","I","J","K","L","M",
               "N","O","P","Q","R","S","T","U","V","W","X","Y","Z">>
LowerCase == <<"a","b","c","d","e","f","g","h","i","j","k","l","m",
               "n","o","p","q","r","s","t","u","v","w","x","y","z">>
Digits == {"0","1","2","3","4","5","6","7","8","9"}
Whitespace == {" ", "\t", "\n", "\r"}

Range(s) == {s[k] : k \in DOMAIN s}

\* str.lower() on one character
LowerChar(c) ==
    IF \E k \in DOMAIN UpperCase : UpperCase[k] = c
    THEN LowerCase[CHOOSE k \in DOMAIN UpperCase : UpperCase[k] = c]
    ELSE c

\* str.lower()
Lower(s) == [k \in DOMAIN s |-> LowerChar(s[k])]

\* str.strip(): drops leading and trailing whitespace
Strip(s) ==
    LET keep == {k \in DOMAIN s : s[k] \notin Whitespace}
    IN IF keep = {} THEN <<>>
       ELSE LET lo == CHOOSE k \in keep : \A m \in keep : k <= m
                hi == CHOOSE k \in keep : \A m \in keep : k >= m
            IN SubSeq(s, lo, hi)

\* %XX of the reserved characters that occur in the titles of the model
PercentCode(c) ==
    CASE c = "&" -> <<"%","2","6">>
      [] c = "\"" -> <<"%","2","2">>
      [] c = "?" -> <<"%","3","F">>
      [] c = "=" -> <<"%","3","D">>
      [] c = "/" -> <<"%","2","F">>
      [] c = ":" -> <<"%","3","A">>
      [] c = "+" -> <<"%","2","B">>
      [] OTHER -> <<"%","X","X">>

QuoteSafe == Range(UpperCase) \cup Range(LowerCase) \cup Digits \cup {"_", ".", "-", "~"}

RECURSIVE quote_plus(_)
\* urllib.parse.quote_plus: space to '+', unreserved characters kept, the rest %XX
quote_plus(s) ==
    IF s = <<>> THEN <<>>
    ELSE (IF Head(s) = " " THEN <<"+">>
          ELSE IF Head(s) \in QuoteSafe THEN <<Head(s)>>
          ELSE PercentCode(Head(s))) \o quote_plus(Tail(s))

YES == <<"y","e","s">>
NO == <<"n","o">>
QUIT == <<"q","u","i","t">>
\* input() raising EOFError instead of returning a line
EOF == <<"<EOF>">>

----------------------------------------------------------------------------
\* What the environment can hand to the program

\* values extract_info_from_text returns for the title (lines 61, 68-69)
Titles == {TITLE_NOT_FOUND, A_TITLE, <<>>}
\* values extract_info_from_text returns for the doi (lines 62, 77)
Dois == {DOI_NOT_FOUND, DOI_URL}

\* lines the user types at the prompt
RawAnswers == { YES, <<" ","Y","E","S"," ">>,
                NO, <<"N","o","\t">>,
                QUIT, <<"Q","U","I","T"," ">>,
                <<>>, <<"y">>, <<"y","e","s","!">> }

----------------------------------------------------------------------------
\* Library calls

\* os.makedirs(d, exist_ok=True): succeeds when d exists, else creates d or raises
makedirs_ok(de, d, ok) == de[d] \/ ok
makedirs(de, d, ok) == IF makedirs_ok(de, d, ok) THEN [de EXCEPT ![d] = TRUE] ELSE de

\* shutil.move as a copy: the file is put in dst and is not taken from its path
shutil_move_copy(l, k, dst, ok) == IF ok THEN [l EXCEPT ![k] = @ \cup {dst}] ELSE l

\* shutil.move(image_path, dst): the file leaves its path and is in dst afterwards,
\* or the call raises and the file stays
shutil_move(l, k, dst, ok) == IF ok THEN [l EXCEPT ![k] = (@ \ {ORIG}) \cup {dst}] ELSE l

\* the answer without .lower(): 'YES' is not 'yes'
ReadAnswer_no_lower(raw) == Strip(raw)

\* answer = input(prompt).lower().strip()
ReadAnswer(raw) == Strip(Lower(raw))

\* the resolver with the title tried first
Destination_title_first(t, d) ==
    IF t # TITLE_NOT_FOUND
    THEN [kind |-> "search", url |-> GOOGLE_PREFIX \o quote_plus(t)]
    ELSE IF d # DOI_NOT_FOUND THEN [kind |-> "doi", url |-> d]
         ELSE [kind |-> "none", url |-> <<>>]

\* the resolver without the test of the title sentinel
Destination_title_unchecked(t, d) ==
    IF d # DOI_NOT_FOUND THEN [kind |-> "doi", url |-> d]
    ELSE [kind |-> "search", url |-> GOOGLE_PREFIX \o quote_plus(t)]

\* The destination process_image / __main__ opens: the doi when one was found,
\* else the search URL of the title when one was found, else none
Destination(t, d) ==
    IF d # DOI_NOT_FOUND THEN [kind |-> "doi", url |-> d]
    ELSE IF t # TITLE_NOT_FOUND
         THEN [kind |-> "search", url |-> GOOGLE_PREFIX \o quote_plus(t)]
         ELSE [kind |-> "none", url |-> <<>>]

Say(k, m) == console' = [console EXCEPT ![k] = @ \cup m]
Fail(k, f) == failed' = [failed EXCEPT ![k] = @ \cup f]
Moved(k, dst, ok) == moves' = [moves EXCEPT ![k] = Append(@, [dst |-> dst, ok |-> ok])]

----------------------------------------------------------------------------
\* extract_info_from_text: the two regular-expression searches, as re runs them

Quotes == {"\"", "'"}
\* the class [-._;()/:A-Z0-9] under re.IGNORECASE
DoiChars ==
    Range(UpperCase) \cup Range(LowerCase) \cup Digits
        \cup {"-", ".", "_", ";", "(", ")", "/", ":"}
DOI_PREFIX == <<"h","t","t","p","s",":","/","/","d","o","i",".","o","r","g","/">>
\* the literals of the patterns, in lower case
TITLED == <<"t","i","t","l","e","d">>
TITLE_IS == <<"t","i","t","l","e"," ","i","s">>
MD_TITLE == <<"*","*","t","i","t","l","e",":","*","*">>
TEN_DOT == <<"1","0",".">>
\* a group that did not take part in the match, and a search without match
None == <<"<None>">>

Least(S) == CHOOSE x \in S : \A y \in S : x <= y

\* a literal of the pattern matches s at p, letters compared without case
literal_at(s, p, w) ==
    p + Len(w) - 1 <= Len(s) /\ Lower(SubSeq(s, p, p + Len(w) - 1)) = w

\* the first position from p on whose character is in cls, Len(s) + 1 if none
first_in(s, p, cls) ==
    LET hits == {q \in p..Len(s) : s[q] \in cls}
    IN IF hits = {} THEN Len(s) + 1 ELSE Least(hits)

\* the end of a greedy run of cls from p: the first position not in cls
first_not_in(s, p, cls) ==
    LET hits == {q \in p..Len(s) : s[q] \notin cls}
    IN IF hits = {} THEN Len(s) + 1 ELSE Least(hits)

\* (?:titled|title is)\s*["'](.*?)(?=["']) tried at p: group 1, or None.
\* .*? takes no newline and stops before the first quote of either kind.
prose_title_at(s, p) ==
    LET after == IF literal_at(s, p, TITLED) THEN p + Len(TITLED)
                 ELSE IF literal_at(s, p, TITLE_IS) THEN p + Len(TITLE_IS)
                 ELSE 0
        q == first_not_in(s, after, Whitespace)
        e == first_in(s, q + 1, Quotes \cup {"\n"})
    IN IF /\ after > 0
          /\ q <= Len(s) /\ s[q] \in Quotes
          /\ e <= Len(s) /\ s[e] \in Quotes
       THEN SubSeq(s, q + 1, e - 1)
       ELSE None

\* \*\*Title:\*\*\s*(.*) tried at p: group 2, or None.
\* \s* takes newlines too; .* runs to the end of the line.
markdown_title_at(s, p) ==
    IF literal_at(s, p, MD_TITLE)
    THEN LET q == first_not_in(s, p + Len(MD_TITLE), Whitespace)
         IN SubSeq(s, q, first_in(s, q, {"\n"}) - 1)
    ELSE None

\* re.search(title_pattern, content, re.IGNORECASE): the groups of the leftmost
\* match, the first alternative tried first at each position
title_match(s) ==
    LET at == {p \in 1..Len(s) :
                 prose_title_at(s, p) # None \/ markdown_title_at(s, p) # None}
    IN IF at = {} THEN [found |-> FALSE, group1 |-> None, group2 |-> None]
       ELSE LET p == Least(at)
            IN IF prose_title_at(s, p) # None
               THEN [found |-> TRUE, group1 |-> prose_title_at(s, p), group2 |-> None]
               ELSE [found |-> TRUE, group1 |-> None, group2 |-> markdown_title_at(s, p)]

\* 10\.\d{4,9}/[-._;()/:A-Z0-9]+ tried at p: group 1, or None
doi_at(s, p) ==
    LET d == first_not_in(s, p + Len(TEN_DOT), Digits)
        e == first_not_in(s, d + 1, DoiChars)
    IN IF /\ literal_at(s, p, TEN_DOT)
          /\ d - (p + Len(TEN_DOT)) \in 4..9
          /\ d <= Len(s) /\ s[d] = "/"
          /\ e > d + 1
       THEN SubSeq(s, p, e - 1)
       ELSE None

\* re.search(doi_pattern, content, re.IGNORECASE).group(1), or None
doi_match(s) ==
    LET at == {p \in 1..Len(s) : doi_at(s, p) # None}
    IN IF at = {} THEN None ELSE doi_at(s, Least(at))

\* str.rstrip(chars)
rstrip(s, chars) ==
    LET keep == {k \in DOMAIN s : s[k] \notin chars}
    IN IF keep = {} THEN <<>>
       ELSE SubSeq(s, 1, CHOOSE k \in keep : \A m \in keep : k >= m)

\* x or y: x when it is truthy (neither None nor empty), else y
py_or(x, y) == IF x # None /\ x # <<>> THEN x ELSE y

\* the function: what it returns, or that it raised (None has no strip())
extract_info_from_text(c) ==
    LET m == title_match(c)
        t == IF m.found THEN py_or(m.group1, m.group2) ELSE TITLE_NOT_FOUND
        g == doi_match(c)
    IN IF t = None
       THEN [raised |-> TRUE, title |-> TITLE_NOT_FOUND, doi |-> DOI_NOT_FOUND]
       ELSE [raised |-> FALSE,
             title |-> IF m.found THEN Strip(t) ELSE t,
             doi |-> IF g = None THEN DOI_NOT_FOUND
                     ELSE DOI_PREFIX \o rstrip(g, {".", ","})]

\* the replies of the model: up to MaxFrags pieces put together
Fragments ==
    { <<"t","i","t","l","e","d"," ","\"">>,
      <<"T","i","t","l","e"," ","I","S","'">>,
      <<"*","*","T","i","t","l","e",":","*","*">>,
      <<" ","X"," ","y"," ">>,
      <<"\"">>,
      <<"'">>,
      <<"1","0",".","1","0","0","0","/","a","B","-","1">>,
      <<"1","0",".","1","2","3","/","z">>,
      <<".",",">>,
      <<"\n">>,
      <<" ">> }

RECURSIVE Concat(_)
Concat(fs) == IF fs = <<>> THEN <<>> ELSE Head(fs) \o Concat(Tail(fs))

Texts == {Concat(fs) : fs \in UNION {[1..k -> Fragments] : k \in 0..MaxFrags}}

\* one call of the function on one reply
ExtractInit ==
    /\ content \in Texts
    /\ pc = "extract"
    /\ title = TITLE_NOT_FOUND /\ doi = DOI_NOT_FOUND
    /\ variant = "batch" /\ n = 0 /\ i = 0
    /\ loc = <<>> /\ console = <<>> /\ failed = <<>>
    /\ opens = <<>> /\ moves = <<>> /\ analyzed = <<>>
    /\ dirExists = [d \in Dirs |-> FALSE]
    /\ line = <<>> /\ answer = <<>> /\ prompts = 0
    /\ all_files = <<>> /\ image_files = <<>> /\ handed = <<>>

call_extract_info_from_text ==
    /\ pc = "extract"
    /\ LET r == extract_info_from_text(content)
       IN /\ pc' = IF r.raised THEN "raised" ELSE "returned"
          /\ title' = r.title
          /\ doi' = r.doi
    /\ UNCHANGED <<content, all_files, image_files, handed, variant, n, i, loc,
                   dirExists, line, answer, console, failed, opens, moves,
                   prompts, analyzed>>

ExtractNext == call_extract_info_from_text

ExtractSpec == ExtractInit /\ [][ExtractNext]_vars

----------------------------------------------------------------------------
\* Batch variant: pdf2image_looper.py

\* image_extensions = ('.png', '.jpg', '.jpeg', '.gif', '.bmp', '.tiff')
image_extensions ==
    {<<".","p","n","g">>, <<".","j","p","g">>, <<".","j","p","e","g">>,
     <<".","g","i","f">>, <<".","b","m","p">>, <<".","t","i","f","f">>}

\* str.endswith(tuple): some member of the tuple is a suffix of s
endswith(s, suffixes) ==
    \E x \in suffixes :
        Len(x) <= Len(s) /\ SubSeq(s, Len(s) - Len(x) + 1, Len(s)) = x

\* the filter without lower()
image_filter_case_sensitive(f) == endswith(f, image_extensions)

\* the condition of the list comprehension: f.lower().endswith(image_extensions)
image_filter(f) == endswith(Lower(f), image_extensions)

\* os.path.join(directory, f) on a directory path without trailing separator
directory_path == <<"d","i","r">>
os_path_join(d, f) == d \o <<"/">> \o f

\* directory entries of the model
a_png == <<"a",".","p","n","g">>
Scan_PNG == <<"S","c","a","n",".","P","N","G">>
c_Tiff == <<"c",".","T","i","f","f">>
notes_txt == <<"n","o","t","e","s",".","t","x","t">>
png == <<"p","n","g">>
\* os.listdir raised FileNotFoundError: there is no listing
FileNotFoundError == << <<"<FileNotFoundError>">> >>

\* what os.listdir can return: any entries in any order
AllListings ==
    {<<>>, <<notes_txt>>, <<png, notes_txt>>,
     <<a_png>>, <<notes_txt, Scan_PNG>>,
     <<a_png, notes_txt, Scan_PNG>>, <<Scan_PNG, png, a_png>>,
     <<c_Tiff, a_png, notes_txt, Scan_PNG>>}

Listings ==
    {l \in AllListings : Len(SelectSeq(l, image_filter)) <= MaxImages}

\* args.image_path of the single variant
image_path == os_path_join(directory_path, a_png)

Init ==
    /\ variant \in {"batch", "single"}
    /\ all_files \in IF variant = "batch" THEN Listings \cup {FileNotFoundError}
                                          ELSE {<<>>}
    /\ image_files = <<>>
    /\ handed = <<>>
    /\ content = <<>>
    /\ n = IF variant = "single" THEN 1 ELSE 0
    /\ i = IF variant = "single" THEN 1 ELSE 0
    /\ pc = IF variant = "single" THEN "s_analyze" ELSE "scan"
    /\ loc = [k \in 1..n |-> {ORIG}]
    /\ dirExists \in [Dirs -> BOOLEAN]
    /\ title = TITLE_NOT_FOUND
    /\ doi = DOI_NOT_FOUND
    /\ line = <<>>
    /\ answer = <<>>
    /\ console = [k \in 1..n |-> {}]
    /\ failed = [k \in 1..n |-> {}]
    /\ opens = [k \in 1..n |-> <<>>]
    /\ moves = [k \in 1..n |-> <<>>]
    /\ prompts = 0
    /\ analyzed = [k \in 1..n |-> 0]

\* all_files = os.listdir(...); image_files = [join(dir, f) for f in all_files if ...]
\* no image files, or no such directory: print and exit(); total_images = len(image_files)
main_scan ==
    /\ variant = "batch" /\ pc = "scan"
    /\ IF all_files = FileNotFoundError
       THEN /\ pc' = "stopped"
            /\ UNCHANGED <<image_files, n, loc, console, failed, opens, moves, analyzed>>
       ELSE LET kept == SelectSeq(all_files, image_filter)
                total_images == Len(kept)
            IN  /\ image_files' = [k \in 1..total_images |->
                                       os_path_join(directory_path, kept[k])]
                /\ n' = total_images
                /\ pc' = IF total_images = 0 THEN "stopped" ELSE "loop"
                /\ loc' = [k \in 1..total_images |-> {ORIG}]
                /\ console' = [k \in 1..total_images |-> {}]
                /\ failed' = [k \in 1..total_images |-> {}]
                /\ opens' = [k \in 1..total_images |-> <<>>]
                /\ moves' = [k \in 1..total_images |-> <<>>]
                /\ analyzed' = [k \in 1..total_images |-> 0]
    /\ UNCHANGED <<content, all_files, handed, variant, i, dirExists, title, doi,
                   line, answer, prompts>>

\* the loop with a progress line that counts every directory entry
main_loop_count_all ==
    /\ variant = "batch" /\ pc = "loop"
    /\ IF i < n
       THEN /\ i' = i + 1
            /\ pc' = "analyze"
            /\ Say(i + 1, {"progress"})
            /\ handed' = Append(handed, [path |-> image_files[i + 1],
                                         progress |-> <<i + 1, Len(all_files)>>])
       ELSE /\ pc' = "done"
            /\ UNCHANGED <<i, console, handed>>
    /\ title' = TITLE_NOT_FOUND /\ doi' = DOI_NOT_FOUND
    /\ line' = <<>> /\ answer' = <<>> /\ prompts' = 0
    /\ UNCHANGED <<content, all_files, image_files, variant, n, loc, dirExists, failed, opens, moves, analyzed>>

\* for i, image_path in enumerate(image_files): print progress; process_image(...)
\* after the last image: print ALL IMAGES PROCESSED
main_loop ==
    /\ variant = "batch" /\ pc = "loop"
    /\ IF i < n
       THEN /\ i' = i + 1
            /\ pc' = "analyze"
            /\ Say(i + 1, {"progress"})
            /\ handed' = Append(handed, [path |-> image_files[i + 1],
                                         progress |-> <<i + 1, n>>])
       ELSE /\ pc' = "done"
            /\ UNCHANGED <<i, console, handed>>
    /\ title' = TITLE_NOT_FOUND /\ doi' = DOI_NOT_FOUND
    /\ line' = <<>> /\ answer' = <<>> /\ prompts' = 0
    /\ UNCHANGED <<content, all_files, image_files, variant, n, loc, dirExists, failed, opens, moves, analyzed>>

\* api_response = describe_image(image_path); title, doi = extract_info_from_text(...)
\* and the Analysis Results lines
process_image_analyze ==
    /\ variant = "batch" /\ pc = "analyze"
    /\ analyzed' = [analyzed EXCEPT ![i] = @ + 1]
    /\ \/ /\ Fail(i, {"analysis"})
          /\ pc' = "except"
          /\ UNCHANGED <<title, doi, console>>
       \/ \E t \in Titles, d \in Dois :
            /\ title' = t /\ doi' = d
            /\ Say(i, {"results"})
            /\ pc' = "resolve"
            /\ UNCHANGED failed
    /\ UNCHANGED <<content, all_files, image_files, handed, variant, n, i, loc, dirExists, line, answer, opens, moves, prompts>>

\* browser_opened = False; if doi ...: open; elif title ...: open; if browser_opened: ... else: ...
process_image_open ==
    /\ variant = "batch" /\ pc = "resolve"
    /\ LET dest == Destination(title, doi)
       IN IF dest.kind = "none"
          THEN /\ pc' = "auto"
               /\ UNCHANGED <<opens, console, failed>>
          ELSE \E ok \in BOOLEAN :
                 /\ opens' = [opens EXCEPT ![i] = Append(@, [url |-> dest.url, ok |-> ok])]
                 /\ Say(i, {IF dest.kind = "doi" THEN "found_doi" ELSE "searching_title"})
                 /\ IF ok THEN pc' = "post" /\ UNCHANGED failed
                          ELSE pc' = "except" /\ Fail(i, {"browser"})
    /\ UNCHANGED <<content, all_files, image_files, handed, variant, n, i, loc, dirExists, title, doi, line, answer, moves, prompts, analyzed>>

\* handle_post_analysis with the errors of os.makedirs swallowed
handle_post_analysis_dirs_ignore ==
    /\ variant = "batch" /\ pc = "post"
    /\ \E ok1 \in BOOLEAN, ok2 \in BOOLEAN :
         LET d1 == makedirs(dirExists, deletion_dir, ok1)
             d2 == makedirs(d1, inspection_dir, ok2)
         IN /\ dirExists' = d2
            /\ Fail(i, (IF makedirs_ok(dirExists, deletion_dir, ok1) THEN {} ELSE {"makedirs_for_deletion"})
                        \cup (IF makedirs_ok(d1, inspection_dir, ok2) THEN {} ELSE {"makedirs_manual_inspection"}))
            /\ pc' = "prompt"
    /\ UNCHANGED <<content, all_files, image_files, handed, variant, n, i, loc, title, doi, line, answer, console, opens, moves, prompts, analyzed>>

\* handle_post_analysis, before the loop: the two os.makedirs calls
handle_post_analysis_dirs ==
    /\ variant = "batch" /\ pc = "post"
    /\ \E ok1 \in BOOLEAN, ok2 \in BOOLEAN :
         LET d1 == makedirs(dirExists, deletion_dir, ok1)
             d2 == makedirs(d1, inspection_dir, ok2)
         IN IF ~makedirs_ok(dirExists, deletion_dir, ok1)
            THEN /\ Fail(i, {"makedirs_for_deletion"})
                 /\ pc' = "except"
                 /\ UNCHANGED dirExists
            ELSE IF ~makedirs_ok(d1, inspection_dir, ok2)
            THEN /\ Fail(i, {"makedirs_manual_inspection"})
                 /\ pc' = "except"
                 /\ dirExists' = d1
            ELSE /\ pc' = "prompt"
                 /\ dirExists' = d2
                 /\ UNCHANGED failed
    /\ UNCHANGED <<content, all_files, image_files, handed, variant, n, i, loc, title, doi, line, answer, console, opens, moves, prompts, analyzed>>

\* the 'yes' branch with its break inside the try: a failed move asks again
on_yes_retry ==
    /\ answer' = YES
    /\ \E ok \in BOOLEAN :
         /\ loc' = shutil_move(loc, i, deletion_dir, ok)
         /\ Moved(i, deletion_dir, ok)
         /\ IF ok THEN Say(i, {"prompt", "moved_to_for_deletion"}) /\ UNCHANGED failed
                                                                  /\ pc' = "loop"
                  ELSE Say(i, {"prompt", "error_moving_file"}) /\ Fail(i, {"move"})
                                                               /\ pc' = "prompt"

\* if answer == 'yes': try move to for_deletion, except print; break
on_yes ==
    /\ answer' = YES
    /\ \E ok \in BOOLEAN :
         /\ loc' = shutil_move(loc, i, deletion_dir, ok)
         /\ Moved(i, deletion_dir, ok)
         /\ IF ok THEN Say(i, {"prompt", "moved_to_for_deletion"}) /\ UNCHANGED failed
                  ELSE Say(i, {"prompt", "error_moving_file"}) /\ Fail(i, {"move"})
    /\ pc' = "loop"

\* elif answer == 'no': try move to manual_inspection, except print; break
on_no ==
    /\ answer' = NO
    /\ \E ok \in BOOLEAN :
         /\ loc' = shutil_move(loc, i, inspection_dir, ok)
         /\ Moved(i, inspection_dir, ok)
         /\ IF ok THEN Say(i, {"prompt", "moved_to_manual_inspection"}) /\ UNCHANGED failed
                  ELSE Say(i, {"prompt", "error_moving_file"}) /\ Fail(i, {"move"})
    /\ pc' = "loop"

\* quit caught by the exception handler of process_image (as a bare except would)
on_quit_caught ==
    /\ answer' = QUIT
    /\ Say(i, {"prompt", "quit"})
    /\ pc' = "except"
    /\ UNCHANGED <<loc, moves, failed>>

\* a quit that puts the image in process away before it exits
on_quit_moving ==
    /\ answer' = QUIT
    /\ Say(i, {"prompt", "quit"})
    /\ loc' = shutil_move(loc, i, inspection_dir, TRUE)
    /\ Moved(i, inspection_dir, TRUE)
    /\ pc' = "exited"
    /\ UNCHANGED failed

\* elif answer == 'quit': print; sys.exit()   (SystemExit is no Exception: not caught)
on_quit ==
    /\ answer' = QUIT
    /\ Say(i, {"prompt", "quit"})
    /\ pc' = "exited"
    /\ UNCHANGED <<loc, moves, failed>>

\* an invalid answer that leaves the loop
on_invalid_break ==
    /\ answer' \notin {YES, NO, QUIT}
    /\ prompts < MaxPrompts
    /\ Say(i, {"prompt", "invalid_input"})
    /\ pc' = "loop"
    /\ UNCHANGED <<loc, moves, failed>>

\* else: print Invalid input; the while loop goes round
on_invalid ==
    /\ answer' \notin {YES, NO, QUIT}
    /\ prompts < MaxPrompts
    /\ Say(i, {"prompt", "invalid_input"})
    /\ pc' = "prompt"
    /\ UNCHANGED <<loc, moves, failed>>

\* one round of the while loop of handle_post_analysis
handle_post_analysis_input ==
    /\ variant = "batch" /\ pc = "prompt"
    /\ \E raw \in RawAnswers :
         /\ line' = raw
         /\ answer' = ReadAnswer(raw)
         /\ prompts' = prompts + 1
         /\ (on_yes \/ on_no \/ on_quit \/ on_invalid)
    /\ UNCHANGED <<content, all_files, image_files, handed, variant, n, i, dirExists, title, doi, opens, analyzed>>

\* input() raises (EOFError at end of input): an Exception, caught in process_image
handle_post_analysis_eof ==
    /\ variant = "batch" /\ pc = "prompt"
    /\ prompts' = prompts + 1
    /\ line' = EOF
    /\ Fail(i, {"input"})
    /\ Say(i, {"prompt"})
    /\ pc' = "except"
    /\ UNCHANGED <<content, all_files, image_files, handed, variant, n, i, loc, dirExists, title, doi, answer, opens, moves, analyzed>>

\* the automatic move with for_deletion as its target
process_image_auto_delete ==
    /\ variant = "batch" /\ pc = "auto"
    /\ \E okd \in BOOLEAN, okm \in BOOLEAN :
         IF ~makedirs_ok(dirExists, deletion_dir, okd)
         THEN /\ Say(i, {"nothing_found"})
              /\ Fail(i, {"makedirs_for_deletion"})
              /\ pc' = "except"
              /\ UNCHANGED <<dirExists, loc, moves>>
         ELSE /\ dirExists' = makedirs(dirExists, deletion_dir, okd)
              /\ loc' = shutil_move(loc, i, deletion_dir, okm)
              /\ Moved(i, deletion_dir, okm)
              /\ IF okm THEN /\ Say(i, {"nothing_found", "moved_to_for_deletion"})
                             /\ pc' = "loop"
                             /\ UNCHANGED failed
                        ELSE /\ Say(i, {"nothing_found"})
                             /\ Fail(i, {"move"})
                             /\ pc' = "except"
    /\ UNCHANGED <<content, all_files, image_files, handed, variant, n, i, title, doi, line, answer, opens, prompts, analyzed>>

\* else branch of process_image: nothing found, move to manual_inspection
process_image_auto ==
    /\ variant = "batch" /\ pc = "auto"
    /\ \E okd \in BOOLEAN, okm \in BOOLEAN :
         IF ~makedirs_ok(dirExists, inspection_dir, okd)
         THEN /\ Say(i, {"nothing_found"})
              /\ Fail(i, {"makedirs_manual_inspection"})
              /\ pc' = "except"
              /\ UNCHANGED <<dirExists, loc, moves>>
         ELSE /\ dirExists' = makedirs(dirExists, inspection_dir, okd)
              /\ loc' = shutil_move(loc, i, inspection_dir, okm)
              /\ Moved(i, inspection_dir, okm)
              /\ IF okm THEN /\ Say(i, {"nothing_found", "moved_to_manual_inspection"})
                             /\ pc' = "loop"
                             /\ UNCHANGED failed
                        ELSE /\ Say(i, {"nothing_found"})
                             /\ Fail(i, {"move"})
                             /\ pc' = "except"
    /\ UNCHANGED <<content, all_files, image_files, handed, variant, n, i, title, doi, line, answer, opens, prompts, analyzed>>

\* the exception handler with its shutil.move outside any try
process_image_except_unguarded ==
    /\ variant = "batch" /\ pc = "except"
    /\ \E okd \in BOOLEAN, okm \in BOOLEAN :
         IF ~makedirs_ok(dirExists, inspection_dir, okd)
         THEN /\ Say(i, {"unexpected_error", "traceback"})
              /\ Fail(i, {"handler_makedirs"})
              /\ pc' = "crashed"
              /\ UNCHANGED <<dirExists, loc, moves>>
         ELSE /\ dirExists' = makedirs(dirExists, inspection_dir, okd)
              /\ loc' = shutil_move(loc, i, inspection_dir, okm)
              /\ Moved(i, inspection_dir, okm)
              /\ IF okm THEN Say(i, {"unexpected_error"}) /\ UNCHANGED failed /\ pc' = "loop"
                        ELSE Say(i, {"unexpected_error", "traceback"}) /\ Fail(i, {"handler_move"})
                             /\ pc' = "crashed"
    /\ UNCHANGED <<content, all_files, image_files, handed, variant, n, i, title, doi, line, answer, opens, prompts, analyzed>>

\* except Exception as e: print; os.makedirs (not guarded); try move, except print
process_image_except ==
    /\ variant = "batch" /\ pc = "except"
    /\ \E okd \in BOOLEAN, okm \in BOOLEAN :
         IF ~makedirs_ok(dirExists, inspection_dir, okd)
         THEN /\ Say(i, {"unexpected_error", "traceback"})
              /\ Fail(i, {"handler_makedirs"})
              /\ pc' = "crashed"
              /\ UNCHANGED <<dirExists, loc, moves>>
         ELSE /\ dirExists' = makedirs(dirExists, inspection_dir, okd)
              /\ loc' = shutil_move(loc, i, inspection_dir, okm)
              /\ Moved(i, inspection_dir, okm)
              /\ IF okm THEN Say(i, {"unexpected_error"}) /\ UNCHANGED failed
                        ELSE Say(i, {"unexpected_error", "could_not_move"}) /\ Fail(i, {"handler_move"})
              /\ pc' = "loop"
    /\ UNCHANGED <<content, all_files, image_files, handed, variant, n, i, title, doi, line, answer, opens, prompts, analyzed>>

BatchNext ==
    \/ main_scan
    \/ main_loop
    \/ process_image_analyze
    \/ process_image_open
    \/ handle_post_analysis_dirs
    \/ handle_post_analysis_input
    \/ handle_post_analysis_eof
    \/ process_image_auto
    \/ process_image_except

----------------------------------------------------------------------------
\* Single-image variant: pdf2image2browser2download.py

\* api_response = describe_image(...); title, doi = extract_info_from_text(...)
\* an exception here is caught nowhere: the process ends with a traceback
single_analyze ==
    /\ variant = "single" /\ pc = "s_analyze"
    /\ analyzed' = [analyzed EXCEPT ![i] = @ + 1]
    /\ \/ /\ Fail(i, {"analysis"})
          /\ Say(i, {"traceback"})
          /\ pc' = "crashed"
          /\ UNCHANGED <<title, doi>>
       \/ \E t \in Titles, d \in Dois :
            /\ title' = t /\ doi' = d
            /\ Say(i, {"results"})
            /\ pc' = "s_resolve"
            /\ UNCHANGED failed
    /\ UNCHANGED <<content, all_files, image_files, handed, variant, n, i, loc, dirExists, line, answer, opens, moves, prompts>>

\* if doi ...: try: open; handle_post_analysis  elif title ...: try: open; ...  else: print
single_open ==
    /\ variant = "single" /\ pc = "s_resolve"
    /\ LET dest == Destination(title, doi)
       IN IF dest.kind = "none"
          THEN /\ Say(i, {"nothing_found"})
               /\ pc' = "end"
               /\ UNCHANGED <<opens, failed>>
          ELSE \E ok \in BOOLEAN :
                 /\ opens' = [opens EXCEPT ![i] = Append(@, [url |-> dest.url, ok |-> ok])]
                 /\ IF ok THEN /\ Say(i, {IF dest.kind = "doi" THEN "found_doi" ELSE "searching_title"})
                               /\ pc' = "s_post"
                               /\ UNCHANGED failed
                          ELSE /\ Say(i, {IF dest.kind = "doi" THEN "found_doi" ELSE "searching_title",
                                          "browser_error"})
                               /\ pc' = "end"
                               /\ Fail(i, {"browser"})
    /\ UNCHANGED <<content, all_files, image_files, handed, variant, n, i, loc, dirExists, title, doi, line, answer, moves, prompts, analyzed>>

\* handle_post_analysis, before the loop: the two os.makedirs calls; an exception
\* is caught by the except of the caller's try
single_handle_post_analysis_dirs ==
    /\ variant = "single" /\ pc = "s_post"
    /\ \E ok1 \in BOOLEAN, ok2 \in BOOLEAN :
         LET d1 == makedirs(dirExists, deletion_dir, ok1)
             d2 == makedirs(d1, inspection_dir, ok2)
         IN IF ~makedirs_ok(dirExists, deletion_dir, ok1)
            THEN /\ Fail(i, {"makedirs_for_deletion"})
                 /\ Say(i, {"browser_error"})
                 /\ pc' = "end"
                 /\ UNCHANGED dirExists
            ELSE IF ~makedirs_ok(d1, inspection_dir, ok2)
            THEN /\ Fail(i, {"makedirs_manual_inspection"})
                 /\ Say(i, {"browser_error"})
                 /\ pc' = "end"
                 /\ dirExists' = d1
            ELSE /\ pc' = "s_prompt"
                 /\ dirExists' = d2
                 /\ UNCHANGED <<failed, console>>
    /\ UNCHANGED <<content, all_files, image_files, handed, variant, n, i, loc, title, doi, line, answer, opens, moves, prompts, analyzed>>

\* if answer == 'yes': try move to for_deletion, except print; break
single_on_yes ==
    /\ answer' = YES
    /\ \E ok \in BOOLEAN :
         /\ loc' = shutil_move(loc, i, deletion_dir, ok)
         /\ Moved(i, deletion_dir, ok)
         /\ IF ok THEN Say(i, {"prompt", "moved_to_for_deletion"}) /\ UNCHANGED failed
                  ELSE Say(i, {"prompt", "error_moving_file"}) /\ Fail(i, {"move"})
    /\ pc' = "end"

\* elif answer == 'no': try move to manual_inspection, except print; break
single_on_no ==
    /\ answer' = NO
    /\ \E ok \in BOOLEAN :
         /\ loc' = shutil_move(loc, i, inspection_dir, ok)
         /\ Moved(i, inspection_dir, ok)
         /\ IF ok THEN Say(i, {"prompt", "moved_to_manual_inspection"}) /\ UNCHANGED failed
                  ELSE Say(i, {"prompt", "error_moving_file"}) /\ Fail(i, {"move"})
    /\ pc' = "end"

\* else: print Invalid input ('quit' is no command of this variant)
single_on_invalid ==
    /\ answer' \notin {YES, NO}
    /\ prompts < MaxPrompts
    /\ Say(i, {"prompt", "invalid_input"})
    /\ pc' = "s_prompt"
    /\ UNCHANGED <<loc, moves, failed>>

\* one round of the while loop of handle_post_analysis
single_handle_post_analysis_input ==
    /\ variant = "single" /\ pc = "s_prompt"
    /\ \E raw \in RawAnswers :
         /\ line' = raw
         /\ answer' = ReadAnswer(raw)
         /\ prompts' = prompts + 1
         /\ (single_on_yes \/ single_on_no \/ single_on_invalid)
    /\ UNCHANGED <<content, all_files, image_files, handed, variant, n, i, dirExists, title, doi, opens, analyzed>>

\* input() raises (EOFError): caught by the except of the caller's try
single_handle_post_analysis_eof ==
    /\ variant = "single" /\ pc = "s_prompt"
    /\ prompts' = prompts + 1
    /\ line' = EOF
    /\ Fail(i, {"input"})
    /\ Say(i, {"prompt", "browser_error"})
    /\ pc' = "end"
    /\ UNCHANGED <<content, all_files, image_files, handed, variant, n, i, loc, dirExists, title, doi, answer, opens, moves, analyzed>>

SingleNext ==
    \/ single_analyze
    \/ single_open
    \/ single_handle_post_analysis_dirs
    \/ single_handle_post_analysis_input
    \/ single_handle_post_analysis_eof

Next == BatchNext \/ SingleNext

Spec == Init /\ [][Next]_vars

----------------------------------------------------------------------------
TypeOK ==
    /\ variant \in {"batch", "single"}
    /\ n \in 0..MaxImages /\ i \in 0..n
    /\ all_files \in AllListings \cup {FileNotFoundError}
    /\ variant = "batch" /\ pc # "scan" => n = Len(image_files)
    /\ Len(handed) = IF variant = "batch" THEN i ELSE 0
    /\ pc \in {"scan", "stopped", "loop", "analyze", "resolve", "post", "prompt", "auto", "except",
               "done", "exited", "crashed",
               "s_analyze", "s_resolve", "s_post", "s_prompt", "end"}
    /\ loc \in [1..n -> SUBSET (Dirs \cup {ORIG})]
    /\ dirExists \in [Dirs -> BOOLEAN]
    /\ title \in Titles /\ doi \in Dois
    /\ \A k \in 1..n : Len(opens[k]) <= 1 /\ Len(moves[k]) <= 2 /\ analyzed[k] <= 1

----------------------------------------------------------------------------
\* Vocabulary of the properties

Batch == variant = "batch"
Images == 1..n
\* the cycle of image k is over and was not ended by a quit
CycleOver(k) == k < i \/ (k = i /\ pc \in {"loop", "done", "crashed", "end"})
\* the cycle of image k is over and the run goes on (or ended after the last image)
Returned(k) == k < i \/ (k = i /\ pc \in {"loop", "done"})
\* what the user typed, lower-cased and trimmed
Typed(l) == Strip(Lower(l))
\* a step in which input() returned a line
ReadsLine == pc \in {"prompt", "s_prompt"} /\ prompts' = prompts + 1 /\ line' # EOF
ErrorMessages == {"unexpected_error", "error_moving_file", "could_not_move",
                  "browser_error", "traceback"}
Reported(k) == console[k] \cap ErrorMessages # {}
Untouched(k) ==
    /\ analyzed[k] = 0 /\ opens[k] = <<>> /\ moves[k] = <<>>
    /\ console[k] = {} /\ failed[k] = {} /\ loc[k] = {ORIG}
FailedMove(k) == \E m \in DOMAIN moves[k] : ~moves[k][m].ok
MkdirFailures == {"makedirs_for_deletion", "makedirs_manual_inspection", "handler_makedirs"}
Last(q) == q[Len(q)]

----------------------------------------------------------------------------
\* C1: batch mode, 'quit' typed at the prompt of image k: the process has ended
\* (no step is possible any more, so the ALL IMAGES PROCESSED banner is never
\* reached), the exception handler of process_image did not run for the quit, and
\* no image after k was ever analyzed, opened, prompted for or moved.
C1_QuitEndsRun ==
    (Batch /\ i >= 1 /\ line # EOF /\ Typed(line) = QUIT) =>
        /\ pc = "exited"
        /\ ~ENABLED Next
        /\ "unexpected_error" \notin console[i]
        /\ moves[i] = <<>>
        /\ \A j \in Images : j > i => Untouched(j)

\* quit typed (with capitals and a trailing blank) at an image that is not the last
C1_Witness ==
    /\ Batch /\ pc = "exited" /\ i < n
    /\ line = <<"Q","U","I","T"," ">>
    /\ "quit" \in console[i]

\* C2: batch mode, the analysis (encode, request or extract) of image k raised:
\* the exception is reported, no URL is opened and no prompt is issued for k, the
\* file is routed to manual_inspection (it is there, unless creating the folder
\* or moving the file raised), and the run goes on to the next listed file.
C2_AnalysisFailureIsolated ==
    \A k \in Images : (Batch /\ "analysis" \in failed[k] /\ CycleOver(k)) =>
        /\ "unexpected_error" \in console[k]
        /\ opens[k] = <<>> /\ "prompt" \notin console[k]
        /\ \/ loc[k] = {inspection_dir}
           \/ FailedMove(k) /\ "could_not_move" \in console[k]
           \/ "handler_makedirs" \in failed[k]
        /\ k < n => Returned(k)

\* C3: batch mode: a run that is over before every listed image was handed to
\* process_image was ended by 'quit'; and every failure tied to an image left a
\* message on the console.
C3_OnlyQuitEndsEarly ==
    /\ (Batch /\ pc \in {"done", "exited", "crashed"} /\ i < n) => pc = "exited"
    /\ \A k \in Images : (Batch /\ failed[k] # {} /\ CycleOver(k)) => Reported(k)

\* C4: batch mode, the analysis of image i gave neither a title nor a DOI: no URL
\* is opened and no prompt is issued for it, every move attempted for it is a move
\* to manual_inspection, and when its cycle is over the file is in
\* manual_inspection, unless creating the folder or moving the file raised.
C4_NothingFoundAutoInspection ==
    (/\ Batch /\ i >= 1 /\ analyzed[i] = 1 /\ "analysis" \notin failed[i]
     /\ pc \notin {"resolve", "done"}
     /\ title = TITLE_NOT_FOUND /\ doi = DOI_NOT_FOUND) =>
        /\ opens[i] = <<>>
        /\ "prompt" \notin console[i]
        /\ pc \notin {"post", "prompt", "exited"}
        /\ \A m \in DOMAIN moves[i] : moves[i][m].dst = inspection_dir
        /\ CycleOver(i) =>
             \/ loc[i] = {inspection_dir}
             \/ /\ loc[i] = {ORIG}
                /\ failed[i] \cap {"handler_makedirs", "handler_move"} # {}

\* nothing found, the folder did not exist, the file was moved at the first attempt
C4_Witness ==
    /\ Batch /\ i >= 1 /\ pc = "loop" /\ analyzed[i] = 1 /\ failed[i] = {}
    /\ title = TITLE_NOT_FOUND /\ doi = DOI_NOT_FOUND
    /\ loc[i] = {inspection_dir}
    /\ moves[i] = <<[dst |-> inspection_dir, ok |-> TRUE]>>
    /\ "prompt" \notin console[i]

\* C5: at the prompt of either variant, a line that is 'yes' once lower-cased and
\* trimmed makes exactly one move of the image, to for_deletion, and ends the
\* prompt loop; a line that is 'no' likewise, to manual_inspection. The file is in
\* that folder afterwards unless shutil.move raised.
C5_YesNoDisposition ==
    [][ \A dst \in Dirs :
          (ReadsLine /\ Typed(line') = (IF dst = deletion_dir THEN YES ELSE NO)) =>
             /\ Len(moves'[i]) = Len(moves[i]) + 1
             /\ Last(moves'[i]).dst = dst
             /\ loc'[i] = (IF Last(moves'[i]).ok THEN {dst} ELSE loc[i])
             /\ pc' \in {"loop", "end"} ]_vars

\* ' YES ' was typed and the file is in for_deletion
C5_Witness ==
    /\ line = <<" ","Y","E","S"," ">>
    /\ i >= 1 /\ loc[i] = {deletion_dir}
    /\ pc \in {"loop", "end"}

\* C6: at the prompt, a line that is none of yes/no/quit (batch) or yes/no
\* (single) once lower-cased and trimmed raises nothing and changes nothing: no
\* file moves, no folder changes, the image and the batch position stay, and the
\* program is at the same prompt again.
C6_InvalidAnswerReprompts ==
    [][ (ReadsLine /\ Typed(line') \notin (IF Batch THEN {YES, NO, QUIT} ELSE {YES, NO})) =>
          /\ pc' = pc
          /\ loc' = loc /\ dirExists' = dirExists
          /\ i' = i /\ n' = n
          /\ moves' = moves /\ opens' = opens /\ analyzed' = analyzed
          /\ failed' = failed
          /\ title' = title /\ doi' = doi ]_vars

\* two invalid lines in a row, the program is at the prompt, nothing has moved
C6_Witness ==
    /\ pc \in {"prompt", "s_prompt"} /\ prompts >= 2
    /\ Typed(line) \notin {YES, NO, QUIT}
    /\ loc[i] = {ORIG} /\ moves[i] = <<>>

\* C7: in both variants, once the destination of image i is resolved: a found DOI
\* is the one URL opened, whatever the title; the search URL of the title is the
\* one URL opened when the DOI was not found and the title was; nothing is opened
\* when neither was found. No image ever has more than one URL opened.
C7_DoiPriority ==
    /\ \A k \in Images : Len(opens[k]) <= 1
    /\ (/\ i >= 1 /\ analyzed[i] = 1 /\ "analysis" \notin failed[i]
        /\ pc \notin {"resolve", "s_resolve", "done"}) =>
          /\ doi # DOI_NOT_FOUND =>
                Len(opens[i]) = 1 /\ opens[i][1].url = doi
          /\ (doi = DOI_NOT_FOUND /\ title # TITLE_NOT_FOUND) =>
                Len(opens[i]) = 1 /\ opens[i][1].url = GOOGLE_PREFIX \o quote_plus(title)
          /\ (doi = DOI_NOT_FOUND /\ title = TITLE_NOT_FOUND) => opens[i] = <<>>

\* both a title and a DOI were found and the DOI URL is what was opened
C7_Witness ==
    /\ i >= 1 /\ title = A_TITLE /\ doi = DOI_URL
    /\ opens[i] = <<[url |-> DOI_URL, ok |-> TRUE]>>

C9_Original ==
    \A k \in Images : (Batch /\ FailedMove(k) /\ CycleOver(k)) =>
        /\ Reported(k)
        /\ loc[k] = {ORIG}
        /\ Returned(k)

\* C9 amended: a move of image k raised: the failure is reported and the run goes
\* on. After 'yes', 'no' or an analysis exception the image stays at its original
\* path. After the automatic move of an image with nothing found, the exception
\* handler moves again: the image is in manual_inspection when that second move
\* succeeds and at its original path when it raises too.
C9_MoveFailureIsolated ==
    \A k \in Images : (Batch /\ FailedMove(k)) =>
        /\ ~(k = i /\ pc = "crashed")
        /\ (k = i /\ pc = "except") => dirExists[inspection_dir]
        /\ CycleOver(k) =>
             /\ Reported(k) /\ Returned(k)
             /\ IF Last(moves[k]).ok
                THEN /\ moves[k] = <<[dst |-> inspection_dir, ok |-> FALSE],
                                     [dst |-> inspection_dir, ok |-> TRUE]>>
                     /\ opens[k] = <<>> /\ "analysis" \notin failed[k]
                     /\ loc[k] = {inspection_dir}
                ELSE loc[k] = {ORIG}

\* the automatic move raised and the move of the exception handler succeeded
C9_Witness ==
    \E k \in Images :
        /\ Batch /\ CycleOver(k)
        /\ moves[k] = <<[dst |-> inspection_dir, ok |-> FALSE],
                        [dst |-> inspection_dir, ok |-> TRUE]>>
        /\ loc[k] = {inspection_dir}

\* C10 as stated: in either variant, creating a disposal folder raised during the
\* cycle of image k: an error is reported and the file is at its original path,
\* moved nowhere.
C10_Original ==
    \A k \in Images : (failed[k] \cap MkdirFailures # {} /\ CycleOver(k)) =>
        /\ Reported(k)
        /\ loc[k] = {ORIG}

\* C10 amended: creating a disposal folder raised during the cycle of image k: an
\* error is reported and the file is never moved to for_deletion. In single-image
\* mode it stays at its original path. In batch mode the exception handler of
\* process_image creates manual_inspection itself and moves the file there once:
\* the file is in manual_inspection when both succeed, and at its original path
\* when that creation or that move raises.
C10_MkdirFailure ==
    \A k \in Images : (failed[k] \cap MkdirFailures # {} /\ CycleOver(k)) =>
        /\ Reported(k)
        /\ deletion_dir \notin loc[k]
        /\ \A m \in DOMAIN moves[k] : moves[k][m].dst # deletion_dir
        /\ ~Batch => (loc[k] = {ORIG} /\ moves[k] = <<>>)
        /\ Batch =>
             IF "handler_makedirs" \in failed[k]
             THEN loc[k] = {ORIG} /\ moves[k] = <<>>
             ELSE /\ Len(moves[k]) = 1 /\ moves[k][1].dst = inspection_dir
                  /\ loc[k] = (IF moves[k][1].ok THEN {inspection_dir} ELSE {ORIG})

\* batch mode: for_deletion could not be created, the file went to manual_inspection
C10_Witness ==
    \E k \in Images :
        /\ Batch /\ CycleOver(k)
        /\ "makedirs_for_deletion" \in failed[k]
        /\ loc[k] = {inspection_dir}

----------------------------------------------------------------------------
\* Vocabulary of the extraction properties

\* the call of extract_info_from_text on content is over
Called == pc \in {"returned", "raised"}

\* a well-formed DOI token starts at a: 10. then 4 to 9 digits, a slash, and at
\* least one letter, digit or one of -._;()/:
DoiTokenStarts(s) ==
    {a \in 1..Len(s) :
        \E d \in a..Len(s) - 1 :
            /\ a + 2 <= Len(s) /\ SubSeq(s, a, a + 2) = <<"1","0",".">>
            /\ d - (a + 3) \in 4..9
            /\ \A k \in a + 3..d - 1 : s[k] \in Digits
            /\ s[d] = "/"
            /\ s[d + 1] \in DoiChars}

HasDoiToken(s) == DoiTokenStarts(s) # {}

\* the first token, taken to the end of its run of token characters
FirstDoiToken(s) ==
    LET a == Least(DoiTokenStarts(s))
        ends == {b \in a..Len(s) : \A k \in a..b : s[k] \in DoiChars}
    IN SubSeq(s, a, CHOOSE b \in ends : \A c \in ends : c <= b)

\* s without its trailing '.' and ',' characters
WithoutTrailingDots(s) ==
    LET cut == CHOOSE k \in 0..Len(s) :
                   /\ k = 0 \/ s[k] \notin {".", ","}
                   /\ \A j \in k + 1..Len(s) : s[j] \in {".", ","}
    IN SubSeq(s, 1, cut)

----------------------------------------------------------------------------
\* C11: for every reply, the call returns a doi: 'https://doi.org/' followed by
\* the first well-formed DOI token of the reply without its trailing '.' and ','
\* when the reply holds such a token, and 'DOI not found' when it holds none.
C11_Original ==
    Called =>
        /\ pc = "returned"
        /\ doi = IF HasDoiToken(content)
                 THEN DOI_PREFIX \o WithoutTrailingDots(FirstDoiToken(content))
                 ELSE DOI_NOT_FOUND

----------------------------------------------------------------------------
\* the title phrases of a reply, as the specification writes them

\* titled "X" or title is "X" starts at a: the trigger phrase in any case, a
\* quote at q, and X running to the next quote at e
QuotedPhrase(s, a, q, e) ==
    /\ \E w \in {TITLED, TITLE_IS} :
          /\ a + Len(w) <= q
          /\ Lower(SubSeq(s, a, a + Len(w) - 1)) = w
          /\ \A k \in a + Len(w)..q - 1 : s[k] \in Whitespace
    /\ s[q] \in Quotes /\ q < e /\ s[e] \in Quotes
    /\ \A k \in q + 1..e - 1 : s[k] \notin Quotes \cup {"\n"}

\* **Title:** X starts at a: X is s[q..e-1], the rest of the line
MarkdownPhrase(s, a, q, e) ==
    /\ a + Len(MD_TITLE) <= q /\ q <= e
    /\ Lower(SubSeq(s, a, a + Len(MD_TITLE) - 1)) = MD_TITLE
    /\ \A k \in a + Len(MD_TITLE)..q - 1 : s[k] \in Whitespace
    /\ q = Len(s) + 1 \/ s[q] \notin Whitespace
    /\ \A k \in q..e - 1 : s[k] # "\n"
    /\ e = Len(s) + 1 \/ s[e] = "\n"

\* the X of the phrases that start at a
TitlesAt(s, a) ==
    LET pairs == (a..Len(s) + 1) \X (a..Len(s) + 1)
    IN IF \E w \in {TITLED, TITLE_IS, MD_TITLE} : literal_at(s, a, w)
       THEN {SubSeq(s, qe[1] + 1, qe[2] - 1) :
                qe \in {x \in pairs : x[2] <= Len(s) /\ QuotedPhrase(s, a, x[1], x[2])}}
            \cup {SubSeq(s, qe[1], qe[2] - 1) :
                qe \in {x \in pairs : MarkdownPhrase(s, a, x[1], x[2])}}
       ELSE {}

TitlePhraseStarts(s) == {a \in 1..Len(s) : TitlesAt(s, a) # {}}
HasTitlePhrase(s) == TitlePhraseStarts(s) # {}
\* the X of the leftmost phrase
LeftmostTitle(s) == CHOOSE x \in TitlesAt(s, Least(TitlePhraseStarts(s))) : TRUE

\* C12: for every reply holding a title phrase, the call returns as title the X
\* of the leftmost phrase, trimmed of surrounding whitespace, the empty X too.
C12_Original ==
    (Called /\ HasTitlePhrase(content)) =>
        /\ pc = "returned"
        /\ title = Strip(LeftmostTitle(content))

----------------------------------------------------------------------------
\* title parts and DOI parts to put in front of a reply
MatchedTitlePart == <<"t","i","t","l","e","d"," ","\"","X","\""," ">>
UnmatchedTitlePart == <<"s","e","e"," ">>
EmptyTitlePart == <<"t","i","t","l","e","d"," ","\"","\""," ">>
TitleParts == {MatchedTitlePart, UnmatchedTitlePart, EmptyTitlePart}
DoiParts == {<<"1","0",".","1","0","0","0","/","x","\n">>, <<"n","o","n","e","\n">>}

\* C13: the call returns a doi and a title; the doi stays the same whatever
\* title part is put in front of the reply (matched, unmatched, or matched with
\* an empty capture), and the title stays the same whatever DOI part is.
C13_Original ==
    Called =>
        /\ pc = "returned"
        /\ \A tp \in TitleParts :
              LET r == extract_info_from_text(tp \o content)
              IN ~r.raised /\ r.doi = doi
        /\ \A dp \in DoiParts :
              LET r == extract_info_from_text(dp \o content)
              IN ~r.raised /\ r.title = title

----------------------------------------------------------------------------
\* the extensions of image files, as the specification lists them
ImageSuffixes ==
    {<<".","p","n","g">>, <<".","j","p","g">>, <<".","j","p","e","g">>,
     <<".","g","i","f">>, <<".","b","m","p">>, <<".","t","i","f","f">>}
\* the name, lower-cased, ends in one of them
HasImageSuffix(name) ==
    \E x \in ImageSuffixes : \E head \in 0..Len(name) :
        Lower(name) = Lower(SubSeq(name, 1, head)) \o x
PathOf(name) == directory_path \o <<"/">> \o name
\* the scan of the directory is over and gave a list
Scanned == Batch /\ pc \notin {"scan"} /\ all_files # FileNotFoundError
\* something was done for image k: an analysis, an open, a move attempt
Touched(k) ==
    analyzed[k] > 0 \/ opens[k] # <<>> \/ moves[k] # <<>> \/ loc[k] # {ORIG}

\* C14: once the directory is scanned, an entry is on the list of images if and
\* only if its lower-cased name ends in .png, .jpg, .jpeg, .gif, .bmp or .tiff
\* (Scan.PNG is, notes.txt is not); only listed paths are handed to
\* process_image, and only handed images are analyzed, opened or moved.
C14_ScanFilter ==
    Scanned =>
        /\ \A name \in Range(all_files) :
              PathOf(name) \in Range(image_files) <=> HasImageSuffix(name)
        /\ \A path \in Range(image_files) :
              \E name \in Range(all_files) : path = PathOf(name)
        /\ (Scan_PNG \in Range(all_files) => PathOf(Scan_PNG) \in Range(image_files))
        /\ PathOf(notes_txt) \notin Range(image_files)
        /\ DOMAIN analyzed = DOMAIN image_files
        /\ \A h \in DOMAIN handed :
              h \in DOMAIN image_files /\ handed[h].path = image_files[h]
        /\ \A k \in DOMAIN image_files : Touched(k) => k \in DOMAIN handed

C14_Witness ==
    /\ Scanned /\ pc = "done"
    /\ all_files = <<a_png, notes_txt, Scan_PNG>>
    /\ Len(handed) = Len(image_files)
    /\ handed[Len(handed)].path = PathOf(Scan_PNG)
    /\ \A k \in DOMAIN image_files : Touched(k)

----------------------------------------------------------------------------
\* C15 as stated: batch mode, a move of image k has failed: no step attempts
\* another move for k, opens a URL for k or prompts for k, and the cycle of k is
\* over; at most one move is attempted per image.
C15_Original ==
    [][\A k \in DOMAIN moves :
          /\ (Batch /\ FailedMove(k)) =>
                /\ moves'[k] = moves[k] /\ opens'[k] = opens[k]
                /\ k = i' => pc' \in {"loop", "done"}
          /\ Batch => Len(moves[k]) <= 1
      ]_vars

\* C15 amended: batch mode, a move of image k has failed: no URL is opened and no
\* prompt is issued for k any more and the cycle of k ends. No other move is
\* attempted for k, except that after a failed automatic move of an image with
\* nothing found the exception handler attempts the move to manual_inspection
\* once more, whereupon the cycle ends. At most two moves are attempted per image.
C15_MoveFailureEndsTriage ==
    [][\A k \in DOMAIN moves :
          /\ (Batch /\ FailedMove(k)' /\ k = i') =>
                /\ pc' \in {"except", "loop", "done"}
                /\ Len(moves'[k]) <= 2
                /\ pc' = "except" =>
                      /\ moves'[k] = <<[dst |-> inspection_dir, ok |-> FALSE]>>
                      /\ opens'[k] = <<>> /\ "analysis" \notin failed'[k]
          /\ (Batch /\ FailedMove(k)) =>
                /\ opens'[k] = opens[k] /\ analyzed'[k] = analyzed[k]
                /\ k = i' => prompts' <= prompts
                /\ (k = i /\ pc = "except") =>
                      /\ pc' = "loop"
                      /\ Len(moves'[k]) = Len(moves[k]) + 1
                      /\ Last(moves'[k]).dst = inspection_dir
                /\ ~(k = i /\ pc = "except") => moves'[k] = moves[k]
      ]_vars

\* both the automatic move and the handler's retry failed, and the run went on
C15_Witness ==
    \E k \in Images :
        /\ Batch /\ k < i
        /\ moves[k] = <<[dst |-> inspection_dir, ok |-> FALSE],
                        [dst |-> inspection_dir, ok |-> FALSE]>>
        /\ loc[k] = {ORIG}

----------------------------------------------------------------------------
\* input() was called, or is about to be called, for image k
Prompting(k) ==
    \/ "prompt" \in console[k]
    \/ k = i /\ pc \in {"post", "prompt", "s_post", "s_prompt"}

\* C16: in both variants, a prompt for image k comes only after a URL was opened
\* for k without error; when the open raised, no input is requested for k, the
\* failure is reported on the console and the run is not aborted: the batch goes
\* on to the next image.
C16_Original ==
    \A k \in Images :
        /\ Prompting(k) => opens[k] # <<>> /\ Last(opens[k]).ok
        /\ "browser" \in failed[k] =>
              /\ ~Prompting(k)
              /\ ~(k = i /\ pc = "crashed")
              /\ CycleOver(k) => Reported(k)

----------------------------------------------------------------------------
\* what the program holds about image k
PerImage(k) == <<analyzed[k], opens[k], moves[k], loc[k], console[k], failed[k]>>

\* the hand-offs so far are the first i listed images, in listing order, each
\* once, each with the progress line 'k of N'; no later image was touched
InOrder ==
    /\ Len(handed) = i
    /\ \A h \in DOMAIN handed :
          /\ handed[h].path = image_files[h]
          /\ handed[h].progress = <<h, Len(image_files)>>
          /\ "progress" \in console[h]
    /\ \A h, g \in DOMAIN handed : handed[h].path = handed[g].path => h = g
    /\ \A k, m \in DOMAIN image_files :
          k < m => \E a, b \in DOMAIN all_files :
                      /\ a < b
                      /\ image_files[k] = PathOf(all_files[a])
                      /\ image_files[m] = PathOf(all_files[b])
    /\ \A k \in DOMAIN image_files : k > i => Untouched(k)

\* C17: batch mode: the listed images are handed to process_image one at a time
\* in listing order, each at most once, each after its progress line 'i of N'
\* (i = 1..N, N the number of listed images); a step works on the image in
\* process only, and the next image is taken only when the cycle of the image in
\* process has ended.
C17_OneAtATimeInOrder ==
    [][(Batch /\ pc # "scan") =>
          /\ InOrder'
          /\ \A k \in DOMAIN image_files : k # i' => PerImage(k)' = PerImage(k)
          /\ i' # i =>
                /\ i' = i + 1 /\ pc = "loop" /\ pc' = "analyze"
                /\ Untouched(i')
                /\ \A k \in DOMAIN image_files :
                      k = i' => PerImage(k)' = <<0, <<>>, <<>>, {ORIG}, {"progress"}, {}>>
          /\ pc' = "done" => i = Len(image_files)
      ]_vars

C17_Witness ==
    /\ Batch /\ pc = "done"
    /\ all_files = <<Scan_PNG, png, a_png>>
    /\ handed = <<[path |-> PathOf(Scan_PNG), progress |-> <<1, 2>>],
                  [path |-> PathOf(a_png), progress |-> <<2, 2>>]>>
    /\ \A k \in DOMAIN image_files : Touched(k)

----------------------------------------------------------------------------
\* C18: in either variant, a file gets into for_deletion only by the step in
\* which the user answers 'yes' at the prompt of that very image; a file that is
\* in for_deletion was prompted for after a successful open, and nothing raised
\* during its cycle: no automatic path put it there.
C18_DeletionOnlyOnYes ==
    [][\A k \in DOMAIN loc :
          /\ (deletion_dir \in loc'[k] /\ deletion_dir \notin loc[k]) =>
                /\ k = i /\ ReadsLine
                /\ Typed(line') = YES /\ answer' = YES
          /\ deletion_dir \in loc'[k] =>
                /\ moves'[k] = <<[dst |-> deletion_dir, ok |-> TRUE]>>
                /\ opens'[k] # <<>> /\ Last(opens'[k]).ok
                /\ {"prompt", "moved_to_for_deletion"} \subseteq console'[k]
                /\ "nothing_found" \notin console'[k]
                /\ failed'[k] = {}
      ]_vars

\* image 1 went to for_deletion on a 'yes', image 2 to manual_inspection on the
\* automatic path
C18_Witness ==
    /\ Batch /\ pc = "done" /\ n = 2
    /\ loc = <<{deletion_dir}, {inspection_dir}>>
    /\ opens[2] = <<>> /\ "prompt" \notin console[2]

----------------------------------------------------------------------------
\* image k is at its original path, under a name the scan of a new run lists
ListedAgain(k) ==
    /\ loc[k] = {ORIG}
    /\ \E name \in Range(all_files) :
          image_files[k] = PathOf(name) /\ HasImageSuffix(name)

\* C19: batch mode, the step in which 'quit' is answered for image i ends the
\* process and moves nothing: image i and every later listed image are at their
\* original paths, where a new run lists them again, no move was attempted for
\* them, and the images before i keep the places they had.
C19_QuitLeavesRest ==
    [][(Batch /\ ReadsLine /\ Typed(line') = QUIT) =>
          /\ pc' = "exited"
          /\ loc' = loc /\ moves' = moves /\ dirExists' = dirExists
          /\ \A k \in Images : k >= i => ListedAgain(k)' /\ moves'[k] = <<>>
          /\ \A k \in Images : k > i => Untouched(k)'
          /\ \A k \in Images : k < i => loc'[k] = loc[k] /\ loc[k] # {}
      ]_vars

\* quit at image 2 of 2 after image 1 went to for_deletion
C19_Witness ==
    /\ Batch /\ pc = "exited" /\ n = 2 /\ i = 2
    /\ Typed(line) = QUIT
    /\ loc = <<{deletion_dir}, {ORIG}>>

----------------------------------------------------------------------------
\* C20: batch mode over N >= 1 listed images, with requests that return or raise
\* and a user who gives a valid answer in the end: when the run has ended (no
\* step is left), it ended in one of two ways: with ALL IMAGES PROCESSED after
\* the cycles of all N images ended, or by a 'quit' at a prompt.
C20_Original ==
    (Batch /\ n >= 1 /\ pc # "scan" /\ ~ENABLED Next) =>
        \/ pc = "done" /\ i = n /\ \A k \in Images : CycleOver(k)
        \/ pc = "exited" /\ Typed(line) = QUIT

====
